---- MODULE Spec2Model ----
(***************************************************************************)
(* Model of oatpp's per-connection HTTP request processing engine           *)
(* (src/src/oatpp/web/server/HttpProcessor.cpp).                            *)
(*                                                                         *)
(* A connection is served by the blocking strategy (HttpProcessor::Task::  *)
(* run, which calls HttpProcessor::processRequest in a loop) or by the     *)
(* cooperative strategy (HttpProcessor::Coroutine): specification Spec.    *)
(* Specification SpecBoth serves the same stream of requests by both       *)
(* engines side by side, to compare them: they share no state and only     *)
(* see the same collaborator outcomes for the n-th request (variable `in`).*)
(***************************************************************************)
EXTENDS Integers, Sequences, FiniteSets, TLC

(***************************************************************************)
(* Bounds of the model.                                                    *)
(***************************************************************************)
\* number of requests that arrive on the connection
MaxCycles == 2
\* longest request-interceptor chain
MaxInterceptors == 2

(***************************************************************************)
(* Program constants.                                                      *)
(***************************************************************************)
CODE_404 == 404
CODE_500 == 500

CONNECTION_STATE_CLOSE == "CLOSE"
CONNECTION_STATE_KEEP_ALIVE == "KEEP_ALIVE"
CONNECTION_STATE_UPGRADE == "UPGRADE"

\* protocol::http::Header::Value::SERVER, the fixed server identification
SERVER_VALUE == "oatpp"

VARIABLES
  strategy,          \* which engine(s) serve the connection
  chain,             \* length of the shared RequestInterceptors list
  errStyle,          \* headers the configured ErrorHandler puts on its responses
  cycle,             \* number of requests that have arrived so far
  in,                \* collaborator outcomes for request number `cycle`
  \* ---- blocking strategy: HttpProcessor::Task ----
  bpc,               \* position of Task::run
  bcyc,              \* number of header reads Task::run has issued
  connectionState,   \* local `connectionState` of Task::run
  response,          \* local `response` of Task::run
  bRequest,          \* `request` built by the last processRequest call
  bLog,              \* collaborators consulted by the last processRequest call
  bSent,             \* last response written to the connection
  bSends,            \* number of responses written to the connection
  bHandoffs,         \* number of handleConnection invocations
  bOps,              \* reads + writes performed on the connection
  \* ---- cooperative strategy: HttpProcessor::Coroutine ----
  cpc,               \* current step of the coroutine
  ccyc,              \* number of header reads the coroutine has completed
  m_currentRoute,
  m_currentRequest,
  m_currentResponse,
  m_connectionState,
  cError,            \* failure pending for handleError
  cLog,              \* collaborators consulted in the current cycle
  cSent,             \* last response written to the connection
  cSends,            \* number of sends started on the connection
  cLogged,           \* number of OATPP_LOGE reports of handleError
  cHandoffs,         \* number of handleConnection invocations
  cOps,              \* reads + writes performed on the connection
  cOutcome           \* terminal outcome reported to the scheduler

envVars == <<strategy, chain, errStyle, cycle, in>>
taskVars == <<bpc, bcyc, connectionState, response, bRequest, bLog, bSent,
              bSends, bHandoffs, bOps>>
coVars == <<cpc, ccyc, m_currentRoute, m_currentRequest, m_currentResponse,
            m_connectionState, cError, cLog, cSent, cSends, cLogged,
            cHandoffs, cOps, cOutcome>>
vars == <<envVars, taskVars, coVars>>

(***************************************************************************)
(* Requests, responses and collaborator outcomes.                          *)
(***************************************************************************)
NullRequest == [proto |-> "none", conn |-> "none", cycle |-> 0]

NullResponse == [status |-> 0, message |-> "", server |-> <<>>, conn |-> "none",
                 upgrade |-> FALSE, handler |-> FALSE, cycle |-> 0]

NullRoute == FALSE

EmptyLog == [router |-> FALSE, icpt |-> <<>>, endpoint |-> FALSE, eh |-> <<>>]

\* start line + headers the client can send
RequestsIn == [proto : {"HTTP/1.0", "HTTP/1.1"}, conn : {"none", "close", "keep-alive"}]

\* what an interceptor or an endpoint can answer: an own Server header or
\* none, a Connection header or a protocol switch, a
\* ConnectionUpgradeHandler attached or not
ResponsesIn ==
  { r \in [server : {<<>>, <<"custom">>}, conn : {"none", "close"},
           upgrade : BOOLEAN, handler : BOOLEAN] :
      r.upgrade => r.conn = "none" }

\* kinds of failure an interceptor or endpoint can raise: HttpError with a
\* status, std::exception with a message, anything else
FailKinds == {"http", "std", "unknown"}

\* the ErrorHandler is configurable: the default one stamps Server and
\* Connection: close, a custom one may put no header at all
ErrStyles == { [server |-> <<SERVER_VALUE>>, conn |-> "close"],
               [server |-> <<>>, conn |-> "none"] }

\* HttpError::Info left by RequestHeadersReader::readHeaders
ParseStatusCodes == {0, 400}
IoStatuses == {-1, 0, 1}

DefaultIn ==
  [statusCode |-> 0, ioStatus |-> 1,
   request |-> [proto |-> "HTTP/1.1", conn |-> "none"],
   route |-> TRUE, icpt |-> <<>>, endpoint |-> "respond", failKind |-> "std",
   resp |-> [server |-> <<>>, conn |-> "none", upgrade |-> FALSE, handler |-> FALSE]]

\* sequences of length n of "pass" with at most one trailing hit
IcptResults(n) ==
  { [i \in 1..n |-> "pass"] } \cup
  { [i \in 1..n |-> IF i = p THEN k ELSE "pass"] :
      p \in 1..n, k \in {"respond", "fail"} }

HitAt(ic) == IF \E i \in 1..Len(ic) : ic[i] # "pass"
             THEN CHOOSE i \in 1..Len(ic) : ic[i] # "pass" ELSE 0

\* the collaborator outcomes of one request; fields that the outcome makes
\* irrelevant are left at their default
Inputs(n) ==
  { [DefaultIn EXCEPT !.statusCode = s, !.ioStatus = io, !.route = rt,
                       !.icpt = [i \in 1..n |-> "pass"]] :
      s \in ParseStatusCodes \ {0}, io \in IoStatuses, rt \in BOOLEAN }
  \cup
  { [DefaultIn EXCEPT !.ioStatus = io, !.icpt = [i \in 1..n |-> "pass"]] :
      io \in { x \in IoStatuses : x <= 0 } }
  \cup
  { [DefaultIn EXCEPT !.request = rq, !.route = FALSE, !.icpt = [i \in 1..n |-> "pass"]] :
      rq \in RequestsIn }
  \cup
  { [DefaultIn EXCEPT !.request = rq, !.icpt = ic, !.endpoint = "respond", !.resp = rs] :
      rq \in RequestsIn, rs \in ResponsesIn,
      ic \in { x \in IcptResults(n) : HitAt(x) = 0 \/ x[HitAt(x)] = "respond" } }
  \cup
  { [DefaultIn EXCEPT !.request = rq, !.icpt = ic, !.endpoint = "fail", !.failKind = fk] :
      rq \in RequestsIn, fk \in FailKinds,
      ic \in { x \in IcptResults(n) : HitAt(x) = 0 \/ x[HitAt(x)] = "fail" } }

(***************************************************************************)
(* External collaborators.                                                 *)
(***************************************************************************)
\* handler::ErrorHandler::handleError(status, message[, headers]): a
\* response with that status and message, carrying the headers the
\* configured handler puts on its responses
ErrorHandler_handleError(status, message, cyc) ==
  [status |-> status, message |-> message, server |-> errStyle.server,
   conn |-> errStyle.conn, upgrade |-> FALSE, handler |-> FALSE, cycle |-> cyc]

\* the response object an interceptor or endpoint returns
HandlerResponse(r, cyc) ==
  [status |-> IF r.upgrade THEN 101 ELSE 200, message |-> "OK", server |-> r.server,
   conn |-> r.conn, upgrade |-> r.upgrade, handler |-> r.handler, cycle |-> cyc]

\* protocol::http::incoming::Request::createShared
Request_createShared(rq, cyc) == [proto |-> rq.proto, conn |-> rq.conn, cycle |-> cyc]

\* the failure an interceptor or endpoint raises
Failure(kind) ==
  IF kind = "http" THEN [kind |-> "http", status |-> 403, message |-> "forbidden"]
  ELSE IF kind = "std" THEN [kind |-> "std", status |-> 0, message |-> "what"]
  ELSE [kind |-> "unknown", status |-> 0, message |-> ""]

\* CommunicationUtils::considerConnectionState(request, response): UPGRADE
\* when the response signals a protocol switch; CLOSE on an explicit
\* Connection: close; KEEP_ALIVE on an explicit keep-alive of the request
\* or by default for HTTP/1.1; CLOSE otherwise (HTTP/1.0, or no request)
considerConnectionState(request, resp) ==
  IF resp.upgrade THEN CONNECTION_STATE_UPGRADE
  ELSE IF resp.conn = "close" THEN CONNECTION_STATE_CLOSE
  ELSE IF request = NullRequest THEN CONNECTION_STATE_CLOSE
  ELSE IF request.conn = "close" THEN CONNECTION_STATE_CLOSE
  ELSE IF request.conn = "keep-alive" THEN CONNECTION_STATE_KEEP_ALIVE
  ELSE IF request.proto = "HTTP/1.1" THEN CONNECTION_STATE_KEEP_ALIVE
  ELSE CONNECTION_STATE_CLOSE

\* outgoing::Response::putHeaderIfNotExists(Header::SERVER, Header::Value::SERVER)
putHeaderIfNotExists(resp) ==
  IF resp.server = <<>> THEN [resp EXCEPT !.server = <<SERVER_VALUE>>] ELSE resp

(***************************************************************************)
(* The interceptor walk (shared shape of processRequest lines 121-128 and  *)
(* onHeadersParsed lines 172-179): interceptors are asked in list order    *)
(* until one answers or fails.                                             *)
(***************************************************************************)
\* the walk without the `break` of line 125 / the return of line 176: every
\* interceptor of the list is asked
InterceptLoop_AskAll(i, ic, invoked) ==
  [outcome |-> IF HitAt(ic) = 0 THEN "pass" ELSE ic[HitAt(ic)],
   invoked |-> [j \in 1..Len(ic) |-> j]]

RECURSIVE InterceptLoop(_, _, _)
InterceptLoop(i, ic, invoked) ==
  IF i > Len(ic) THEN [outcome |-> "pass", invoked |-> invoked]
  ELSE IF ic[i] = "pass" THEN InterceptLoop(i + 1, ic, Append(invoked, i))
  ELSE [outcome |-> ic[i], invoked |-> Append(invoked, i)]

(***************************************************************************)
(* HttpProcessor::processRequest                                           *)
(***************************************************************************)
\* lines 132-138 without the HttpError clause of lines 132-133
CatchClause_NoHttpClause(f, cyc) ==
  IF f.kind \in {"http", "std"} THEN ErrorHandler_handleError(CODE_500, f.message, cyc)
  ELSE ErrorHandler_handleError(CODE_500, "Unknown error", cyc)

\* the catch clauses of processRequest (lines 132-138)
CatchClause(f, cyc) ==
  IF f.kind = "http" THEN ErrorHandler_handleError(f.status, f.message, cyc)
  ELSE IF f.kind = "std" THEN ErrorHandler_handleError(CODE_500, f.message, cyc)
  ELSE ErrorHandler_handleError(CODE_500, "Unknown error", cyc)

CatchArgs(f) ==
  IF f.kind = "http" THEN [status |-> f.status, message |-> f.message, headers |-> "error"]
  ELSE IF f.kind = "std" THEN [status |-> CODE_500, message |-> f.message, headers |-> "none"]
  ELSE [status |-> CODE_500, message |-> "Unknown error", headers |-> "none"]

\* The results of processRequest: the returned response (NullResponse for
\* nullptr), the value left in the by-reference connectionState, the
\* request built, and which collaborators were consulted.

\* lines 96-99: the header reader reported a status code
InvalidHeadersResult(inp, cyc) ==
  [response |-> ErrorHandler_handleError(inp.statusCode, "Invalid request headers", cyc),
   connectionState |-> CONNECTION_STATE_CLOSE,
   request |-> NullRequest,
   log |-> [EmptyLog EXCEPT !.eh = <<[status |-> inp.statusCode,
                                      message |-> "Invalid request headers",
                                      headers |-> "none"]>>]]

\* lines 101-104: the stream is exhausted, the connection is to be dropped
DropResult ==
  [response |-> NullResponse,
   connectionState |-> CONNECTION_STATE_CLOSE,
   request |-> NullRequest,
   log |-> EmptyLog]

\* lines 108-111: the router has no route
NoRouteResult(cyc) ==
  [response |-> ErrorHandler_handleError(CODE_404, "Current url has no mapping", cyc),
   connectionState |-> CONNECTION_STATE_CLOSE,
   request |-> NullRequest,
   log |-> [EmptyLog EXCEPT !.router = TRUE,
                            !.eh = <<[status |-> CODE_404,
                                      message |-> "Current url has no mapping",
                                      headers |-> "none"]>>]]

\* lines 113-143 with putHeader instead of putHeaderIfNotExists at line 140
RoutedResult_PutHeader(inp, connState, cyc) ==
  LET request == Request_createShared(inp.request, cyc)
      walk == InterceptLoop(1, inp.icpt, <<>>)
      callEndpoint == walk.outcome = "pass"
      failed == walk.outcome = "fail" \/ (callEndpoint /\ inp.endpoint = "fail")
      log == [EmptyLog EXCEPT !.router = TRUE, !.icpt = walk.invoked,
                              !.endpoint = callEndpoint]
  IN IF failed THEN
       [response |-> CatchClause(Failure(inp.failKind), cyc),
        connectionState |-> connState,
        request |-> request,
        log |-> [log EXCEPT !.eh = <<CatchArgs(Failure(inp.failKind))>>]]
     ELSE
       LET stamped == [HandlerResponse(inp.resp, cyc) EXCEPT !.server = <<SERVER_VALUE>>]
       IN [response |-> stamped,
           connectionState |-> considerConnectionState(request, stamped),
           request |-> request,
           log |-> log]

\* lines 113-143: request built, interceptors, endpoint, catch clauses,
\* Server header, connection state
RoutedResult(inp, connState, cyc) ==
  LET request == Request_createShared(inp.request, cyc)
      walk == InterceptLoop(1, inp.icpt, <<>>)
      callEndpoint == walk.outcome = "pass"
      failed == walk.outcome = "fail" \/ (callEndpoint /\ inp.endpoint = "fail")
      log == [EmptyLog EXCEPT !.router = TRUE, !.icpt = walk.invoked,
                              !.endpoint = callEndpoint]
  IN IF failed THEN
       [response |-> CatchClause(Failure(inp.failKind), cyc),
        connectionState |-> connState,
        request |-> request,
        log |-> [log EXCEPT !.eh = <<CatchArgs(Failure(inp.failKind))>>]]
     ELSE
       LET stamped == putHeaderIfNotExists(HandlerResponse(inp.resp, cyc))
       IN [response |-> stamped,
           connectionState |-> considerConnectionState(request, stamped),
           request |-> request,
           log |-> log]

\* processRequest without the `if(!route)` of line 108
processRequest_NoRouteCheck(inp, connState, cyc) ==
  IF inp.statusCode # 0 THEN InvalidHeadersResult(inp, cyc)
  ELSE IF inp.ioStatus <= 0 THEN DropResult
  ELSE RoutedResult(inp, connState, cyc)

\* processRequest with the checks of lines 96 and 101 in the other order
processRequest_IoCheckFirst(inp, connState, cyc) ==
  IF inp.ioStatus <= 0 THEN DropResult
  ELSE IF inp.statusCode # 0 THEN InvalidHeadersResult(inp, cyc)
  ELSE IF ~inp.route THEN NoRouteResult(cyc)
  ELSE RoutedResult(inp, connState, cyc)

\* processRequest with `error.ioStatus < 0` at line 101
processRequest_IoStrict(inp, connState, cyc) ==
  IF inp.statusCode # 0 THEN InvalidHeadersResult(inp, cyc)
  ELSE IF inp.ioStatus < 0 THEN DropResult
  ELSE IF ~inp.route THEN NoRouteResult(cyc)
  ELSE RoutedResult(inp, connState, cyc)

\* lines 82-145
processRequest(inp, connState, cyc) ==
  IF inp.statusCode # 0 THEN InvalidHeadersResult(inp, cyc)
  ELSE IF inp.ioStatus <= 0 THEN DropResult
  ELSE IF ~inp.route THEN NoRouteResult(cyc)
  ELSE RoutedResult(inp, connState, cyc)

(***************************************************************************)
(* HttpProcessor::Task::run                                                *)
(***************************************************************************)
\* lines 59-61: the loop body up to the return of processRequest, which
\* blocks in readHeaders until the next request (or the end of the stream)
\* arrives
TaskProcessRequest ==
  /\ bpc = "processRequest"
  /\ bcyc < cycle
  /\ LET r == processRequest(in, connectionState, cycle)
     IN /\ response' = r.response
        /\ connectionState' = r.connectionState
        /\ bRequest' = r.request
        /\ bLog' = r.log
        /\ bpc' = IF r.response # NullResponse THEN "send" ELSE "done"
  /\ bcyc' = cycle
  /\ bOps' = bOps + 1
  /\ UNCHANGED <<bSent, bSends, bHandoffs>>
  /\ UNCHANGED <<envVars, coVars>>

\* the loop of lines 59-69 with the condition `connectionState != CLOSE`
TaskSend_LoopUnlessClose ==
  /\ bpc = "send"
  /\ bSent' = response
  /\ bSends' = bSends + 1
  /\ bOps' = bOps + 1
  /\ bpc' = IF connectionState # CONNECTION_STATE_CLOSE
            THEN "processRequest" ELSE "afterLoop"
  /\ UNCHANGED <<bcyc, connectionState, response, bRequest, bLog, bHandoffs>>
  /\ UNCHANGED <<envVars, coVars>>

\* lines 63-69: response->send, then the loop condition
TaskSend ==
  /\ bpc = "send"
  /\ bSent' = response
  /\ bSends' = bSends + 1
  /\ bOps' = bOps + 1
  /\ bpc' = IF connectionState = CONNECTION_STATE_KEEP_ALIVE
            THEN "processRequest" ELSE "afterLoop"
  /\ UNCHANGED <<bcyc, connectionState, response, bRequest, bLog, bHandoffs>>
  /\ UNCHANGED <<envVars, coVars>>

\* the handoff of lines 71-78 without the test of the connection state
TaskAfterLoop_NoStateCheck ==
  /\ bpc = "afterLoop"
  /\ bHandoffs' = IF response.handler THEN bHandoffs + 1 ELSE bHandoffs
  /\ bpc' = "done"
  /\ UNCHANGED <<bcyc, connectionState, response, bRequest, bLog, bSent, bSends, bOps>>
  /\ UNCHANGED <<envVars, coVars>>

\* lines 71-80: the upgrade handoff after the loop
TaskAfterLoop ==
  /\ bpc = "afterLoop"
  /\ bHandoffs' = IF connectionState = CONNECTION_STATE_UPGRADE /\ response.handler
                  THEN bHandoffs + 1 ELSE bHandoffs
  /\ bpc' = "done"
  /\ UNCHANGED <<bcyc, connectionState, response, bRequest, bLog, bSent, bSends, bOps>>
  /\ UNCHANGED <<envVars, coVars>>

(***************************************************************************)
(* HttpProcessor::Coroutine                                                *)
(***************************************************************************)
\* kind: BROKEN_PIPE AsyncIOError or any other Error; at: the step that failed
NoError == [kind |-> "none", message |-> "", at |-> "none"]

\* the Error a failed interceptor or endpoint reaches handleError with:
\* not an AsyncIOError, what() is the failure's message
AsError(f, at) == [kind |-> "other", message |-> f.message, at |-> at]

\* RequestHeadersReader::readHeadersAsync: the result is called back to
\* onHeadersParsed; a parse error is raised as a plain Error, a failed
\* read as an AsyncIOError carrying the code of the read
readHeadersAsync(inp) ==
  IF inp.statusCode # 0
  THEN [kind |-> "other", message |-> "Invalid request headers", at |-> "read"]
  ELSE IF inp.ioStatus = -1
  THEN [kind |-> "brokenPipe", message |-> "BROKEN_PIPE", at |-> "read"]
  ELSE IF inp.ioStatus <= 0
  THEN [kind |-> "other", message |-> "ZERO_VALUE", at |-> "read"]
  ELSE NoError

\* line 149-151
act ==
  /\ cpc = "act"
  /\ cpc' = "parseHeaders"
  /\ UNCHANGED <<ccyc, m_currentRoute, m_currentRequest, m_currentResponse,
                 m_connectionState, cError, cLog, cSent, cSends, cLogged,
                 cHandoffs, cOps, cOutcome>>
  /\ UNCHANGED <<envVars, taskVars>>

\* lines 153-155: start the header read and suspend
parseHeaders ==
  /\ cpc = "parseHeaders"
  /\ cpc' = "readHeadersAsync"
  /\ cOps' = cOps + 1
  /\ cLog' = EmptyLog
  /\ UNCHANGED <<ccyc, m_currentRoute, m_currentRequest, m_currentResponse,
                 m_connectionState, cError, cSent, cSends, cLogged,
                 cHandoffs, cOutcome>>
  /\ UNCHANGED <<envVars, taskVars>>

\* the header read fails: the scheduler passes the error to handleError
readHeadersFailed ==
  /\ cpc = "readHeadersAsync"
  /\ ccyc < cycle
  /\ readHeadersAsync(in) # NoError
  /\ ccyc' = cycle
  /\ cError' = readHeadersAsync(in)
  /\ cpc' = "handleError"
  /\ UNCHANGED <<m_currentRoute, m_currentRequest, m_currentResponse,
                 m_connectionState, cLog, cSent, cSends, cLogged,
                 cHandoffs, cOps, cOutcome>>
  /\ UNCHANGED <<envVars, taskVars>>

\* the value m_currentResponse holds after the interceptor walk of lines
\* 172-179: every interceptor asked assigns its answer, nullptr for a pass,
\* and an interceptor that throws assigns nothing
ResponseAfterWalk(walk, old, inp, cyc) ==
  IF walk.outcome = "respond" THEN HandlerResponse(inp.resp, cyc)
  ELSE IF walk.outcome = "pass"
       THEN (IF Len(walk.invoked) >= 1 THEN NullResponse ELSE old)
       ELSE (IF Len(walk.invoked) >= 2 THEN NullResponse ELSE old)

\* lines 157-183
onHeadersParsed ==
  /\ cpc = "readHeadersAsync"
  /\ ccyc < cycle
  /\ readHeadersAsync(in) = NoError
  /\ ccyc' = cycle
  /\ m_currentRoute' = in.route
  /\ IF ~in.route
     THEN /\ m_currentResponse' =
               ErrorHandler_handleError(CODE_404, "Current url has no mapping", cycle)
          /\ cLog' = [cLog EXCEPT !.router = TRUE,
                                  !.eh = Append(@, [status |-> CODE_404,
                                                    message |-> "Current url has no mapping",
                                                    headers |-> "none"])]
          /\ cpc' = "onResponseFormed"
          /\ UNCHANGED <<m_currentRequest, cError>>
     ELSE LET walk == InterceptLoop(1, in.icpt, <<>>)
          IN /\ m_currentRequest' = Request_createShared(in.request, cycle)
             /\ m_currentResponse' = ResponseAfterWalk(walk, m_currentResponse, in, cycle)
             /\ cLog' = [cLog EXCEPT !.router = TRUE, !.icpt = walk.invoked]
             /\ cpc' = IF walk.outcome = "respond" THEN "onResponseFormed"
                       ELSE IF walk.outcome = "pass" THEN "onRequestFormed"
                       ELSE "handleError"
             /\ cError' = IF walk.outcome = "fail" THEN AsError(Failure(in.failKind), "interceptor")
                          ELSE cError
  /\ UNCHANGED <<m_connectionState, cSent, cSends, cLogged, cHandoffs, cOps, cOutcome>>
  /\ UNCHANGED <<envVars, taskVars>>

\* lines 185-187: start the endpoint and suspend
onRequestFormed ==
  /\ cpc = "onRequestFormed"
  /\ cpc' = "handleAsync"
  /\ cLog' = [cLog EXCEPT !.endpoint = TRUE]
  /\ UNCHANGED <<ccyc, m_currentRoute, m_currentRequest, m_currentResponse,
                 m_connectionState, cError, cSent, cSends, cLogged,
                 cHandoffs, cOps, cOutcome>>
  /\ UNCHANGED <<envVars, taskVars>>

\* lines 189-192: the endpoint called back with its response
onResponse ==
  /\ cpc = "handleAsync"
  /\ in.endpoint = "respond"
  /\ m_currentResponse' = HandlerResponse(in.resp, ccyc)
  /\ cpc' = "onResponseFormed"
  /\ UNCHANGED <<ccyc, m_currentRoute, m_currentRequest,
                 m_connectionState, cError, cLog, cSent, cSends, cLogged,
                 cHandoffs, cOps, cOutcome>>
  /\ UNCHANGED <<envVars, taskVars>>

\* the endpoint fails: the scheduler passes the error to handleError
handleAsyncFailed ==
  /\ cpc = "handleAsync"
  /\ in.endpoint = "fail"
  /\ cError' = AsError(Failure(in.failKind), "endpoint")
  /\ cpc' = "handleError"
  /\ UNCHANGED <<ccyc, m_currentRoute, m_currentRequest, m_currentResponse,
                 m_connectionState, cLog, cSent, cSends, cLogged,
                 cHandoffs, cOps, cOutcome>>
  /\ UNCHANGED <<envVars, taskVars>>

\* lines 194-201: stamp, compute the state, start the send and suspend
onResponseFormed ==
  /\ cpc = "onResponseFormed"
  /\ LET stamped == putHeaderIfNotExists(m_currentResponse)
     IN /\ m_currentResponse' = stamped
        /\ m_connectionState' = considerConnectionState(m_currentRequest, stamped)
  /\ cSends' = cSends + 1
  /\ cOps' = cOps + 1
  /\ cpc' = "sendAsync"
  /\ UNCHANGED <<ccyc, m_currentRoute, m_currentRequest, cError, cLog, cSent,
                 cLogged, cHandoffs, cOutcome>>
  /\ UNCHANGED <<envVars, taskVars>>

\* Response::sendAsync completed: .next(yieldTo(onRequestDone))
sendAsyncDone ==
  /\ cpc = "sendAsync"
  /\ cSent' = m_currentResponse
  /\ cpc' = "onRequestDone"
  /\ UNCHANGED <<ccyc, m_currentRoute, m_currentRequest, m_currentResponse,
                 m_connectionState, cError, cLog, cSends, cLogged,
                 cHandoffs, cOps, cOutcome>>
  /\ UNCHANGED <<envVars, taskVars>>

\* Response::sendAsync failed: the peer closed (BROKEN_PIPE) or another
\* error; the scheduler passes it to handleError
sendAsyncFailed ==
  /\ cpc = "sendAsync"
  /\ \E k \in {"brokenPipe", "other"} :
       cError' = [kind |-> k, message |-> "send failed", at |-> "send"]
  /\ cpc' = "handleError"
  /\ UNCHANGED <<ccyc, m_currentRoute, m_currentRequest, m_currentResponse,
                 m_connectionState, cLog, cSent, cSends, cLogged,
                 cHandoffs, cOps, cOutcome>>
  /\ UNCHANGED <<envVars, taskVars>>

\* lines 203-219
onRequestDone ==
  /\ cpc = "onRequestDone"
  /\ IF m_connectionState = CONNECTION_STATE_KEEP_ALIVE
     THEN /\ cpc' = "parseHeaders"
          /\ UNCHANGED <<cHandoffs, cOutcome>>
     ELSE /\ cHandoffs' = IF m_connectionState = CONNECTION_STATE_UPGRADE
                             /\ m_currentResponse.handler
                          THEN cHandoffs + 1 ELSE cHandoffs
          /\ cpc' = "finished"
          /\ cOutcome' = "finish"
  /\ UNCHANGED <<ccyc, m_currentRoute, m_currentRequest, m_currentResponse,
                 m_connectionState, cError, cLog, cSent, cSends, cLogged, cOps>>
  /\ UNCHANGED <<envVars, taskVars>>

\* lines 221-244 with the stored-response test of line 232 moved before the
\* BROKEN_PIPE test of lines 225-229
handleError_ResponseCheckFirst ==
  /\ cpc = "handleError"
  /\ IF m_currentResponse # NullResponse
     THEN /\ cLogged' = cLogged + 1 /\ cpc' = "finished" /\ cOutcome' = "error"
          /\ UNCHANGED <<m_currentResponse, cLog>>
     ELSE IF cError.kind = "brokenPipe"
     THEN /\ cpc' = "finished" /\ cOutcome' = "error"
          /\ UNCHANGED <<m_currentResponse, cLog, cLogged>>
     ELSE /\ m_currentResponse' = ErrorHandler_handleError(CODE_500, cError.message, ccyc)
          /\ cLog' = [cLog EXCEPT !.eh = Append(@, [status |-> CODE_500, message |-> cError.message, headers |-> "none"])]
          /\ cpc' = "onResponseFormed"
          /\ UNCHANGED <<cLogged, cOutcome>>
  /\ UNCHANGED <<ccyc, m_currentRoute, m_currentRequest, m_connectionState, cError, cSent, cSends, cHandoffs, cOps>>
  /\ UNCHANGED <<envVars, taskVars>>

\* handleError without the `if(m_currentResponse)` of lines 232-235: a 500
\* response is formed for every failure but a broken pipe
handleError_AlwaysRecover ==
  /\ cpc = "handleError"
  /\ IF cError.kind = "brokenPipe"
     THEN /\ cpc' = "finished"
          /\ cOutcome' = "error"
          /\ UNCHANGED <<m_currentResponse, cLog, cLogged>>
     ELSE /\ m_currentResponse' = ErrorHandler_handleError(CODE_500, cError.message, ccyc)
          /\ cLog' = [cLog EXCEPT !.eh = Append(@, [status |-> CODE_500,
                                                    message |-> cError.message,
                                                    headers |-> "none"])]
          /\ cpc' = "onResponseFormed"
          /\ UNCHANGED <<cLogged, cOutcome>>
  /\ UNCHANGED <<ccyc, m_currentRoute, m_currentRequest, m_connectionState,
                 cError, cSent, cSends, cHandoffs, cOps>>
  /\ UNCHANGED <<envVars, taskVars>>

\* lines 221-244
handleError ==
  /\ cpc = "handleError"
  /\ IF cError.kind = "brokenPipe"
     THEN /\ cpc' = "finished"
          /\ cOutcome' = "error"
          /\ UNCHANGED <<m_currentResponse, cLog, cLogged>>
     ELSE IF m_currentResponse # NullResponse
     THEN /\ cLogged' = cLogged + 1
          /\ cpc' = "finished"
          /\ cOutcome' = "error"
          /\ UNCHANGED <<m_currentResponse, cLog>>
     ELSE /\ m_currentResponse' = ErrorHandler_handleError(CODE_500, cError.message, ccyc)
          /\ cLog' = [cLog EXCEPT !.eh = Append(@, [status |-> CODE_500,
                                                    message |-> cError.message,
                                                    headers |-> "none"])]
          /\ cpc' = "onResponseFormed"
          /\ UNCHANGED <<cLogged, cOutcome>>
  /\ UNCHANGED <<ccyc, m_currentRoute, m_currentRequest, m_connectionState,
                 cError, cSent, cSends, cHandoffs, cOps>>
  /\ UNCHANGED <<envVars, taskVars>>

(***************************************************************************)
(* The connection: the next request (or the end of the stream) arrives     *)
(* once every engine still serving the connection waits in its header read.*)
(***************************************************************************)
TaskWaiting == bpc = "processRequest" /\ bcyc = cycle
CoroutineWaiting == cpc = "readHeadersAsync" /\ ccyc = cycle

NewRequest ==
  /\ cycle < MaxCycles
  /\ TaskWaiting \/ CoroutineWaiting
  /\ bpc \in {"done", "unused"} \/ TaskWaiting
  /\ cpc \in {"finished", "unused"} \/ CoroutineWaiting
  /\ in' \in Inputs(chain)
  /\ cycle' = cycle + 1
  /\ UNCHANGED <<strategy, chain, errStyle>>
  /\ UNCHANGED <<taskVars, coVars>>

InitWith(strategies) ==
  /\ strategy \in strategies
  /\ chain \in 0..MaxInterceptors
  /\ errStyle \in ErrStyles
  /\ cycle = 0
  /\ in = [DefaultIn EXCEPT !.icpt = [i \in 1..chain |-> "pass"]]
  /\ bpc = IF strategy \in {"blocking", "both"} THEN "processRequest" ELSE "unused"
  /\ bcyc = 0
  /\ connectionState = CONNECTION_STATE_CLOSE
  /\ response = NullResponse
  /\ bRequest = NullRequest
  /\ bLog = EmptyLog
  /\ bSent = NullResponse
  /\ bSends = 0
  /\ bHandoffs = 0
  /\ bOps = 0
  /\ cpc = IF strategy \in {"cooperative", "both"} THEN "act" ELSE "unused"
  /\ ccyc = 0
  /\ m_currentRoute = NullRoute
  /\ m_currentRequest = NullRequest
  /\ m_currentResponse = NullResponse
  /\ m_connectionState = CONNECTION_STATE_CLOSE
  /\ cError = NoError
  /\ cLog = EmptyLog
  /\ cSent = NullResponse
  /\ cSends = 0
  /\ cLogged = 0
  /\ cHandoffs = 0
  /\ cOps = 0
  /\ cOutcome = "none"

\* a connection is handed to a Task or to a Coroutine
Init == InitWith({"blocking", "cooperative"})

\* the same connection traffic served by both engines
InitBoth == InitWith({"both"})

Next ==
  \/ NewRequest
  \/ TaskProcessRequest
  \/ TaskSend
  \/ TaskAfterLoop
  \/ act
  \/ parseHeaders
  \/ readHeadersFailed
  \/ onHeadersParsed
  \/ onRequestFormed
  \/ onResponse
  \/ handleAsyncFailed
  \/ onResponseFormed
  \/ sendAsyncDone
  \/ sendAsyncFailed
  \/ onRequestDone
  \/ handleError

Spec == Init /\ [][Next]_vars

SpecBoth == InitBoth /\ [][Next]_vars

\* a connection served by the Coroutine under a scheduler that keeps running
\* a coroutine whose next action or awaited collaborator result is ready
InitCoroutine == InitWith({"cooperative"})

CoroutineStep ==
  \/ act
  \/ parseHeaders
  \/ readHeadersFailed
  \/ onHeadersParsed
  \/ onRequestFormed
  \/ onResponse
  \/ handleAsyncFailed
  \/ onResponseFormed
  \/ sendAsyncDone
  \/ sendAsyncFailed
  \/ onRequestDone
  \/ handleError

NextCoroutine == NewRequest \/ CoroutineStep

SpecCoroutine == InitCoroutine /\ [][NextCoroutine]_vars /\ WF_vars(CoroutineStep)

(***************************************************************************)
(* Properties.                                                             *)
(***************************************************************************)
\* classification of the collaborator outcomes of a request
HeadersOk(inp) == inp.statusCode = 0 /\ inp.ioStatus > 0
MalformedHeaders(inp) == inp.statusCode # 0
StreamExhausted(inp) == inp.statusCode = 0 /\ inp.ioStatus <= 0
RoutingMiss(inp) == HeadersOk(inp) /\ ~inp.route
HandlerFails(inp) ==
  /\ HeadersOk(inp)
  /\ inp.route
  /\ LET w == InterceptLoop(1, inp.icpt, <<>>)
     IN w.outcome = "fail" \/ (w.outcome = "pass" /\ inp.endpoint = "fail")
HandlerResponds(inp) == HeadersOk(inp) /\ inp.route /\ ~HandlerFails(inp)

\* processRequest has returned for the request that arrived last
TaskProcessed == bpc # "unused" /\ cycle >= 1 /\ bcyc = cycle
\* the coroutine has taken up the request that arrived last
CoroutineTookUp == cpc # "unused" /\ cycle >= 1 /\ ccyc = cycle

\* C1: blocking strategy: after a request whose interceptor or endpoint
\* failed, the connection state Task::run acts on is the one computed from
\* the current request and the error response, never a left-over value.
C1_StateComputedForErrorResponse ==
  (TaskProcessed /\ HandlerFails(in))
    => connectionState = considerConnectionState(bRequest, response)

\* C2: a structured failure (status 403, "forbidden") of an interceptor or
\* endpoint reaches the Error Handler as exactly (403, "forbidden", the
\* error's headers) and the response formed for it has status 403, in the
\* blocking and in the cooperative strategy.
StructuredCall == [status |-> 403, message |-> "forbidden", headers |-> "error"]

C2_StructuredErrorKeepsStatus ==
  /\ (TaskProcessed /\ HandlerFails(in) /\ in.failKind = "http")
       => (bLog.eh = <<StructuredCall>> /\ response.status = 403)
  /\ (/\ CoroutineTookUp /\ HandlerFails(in) /\ in.failKind = "http"
      /\ cpc \in {"onResponseFormed", "sendAsync", "onRequestDone"})
       => (cLog.eh = <<StructuredCall>> /\ m_currentResponse.status = 403)

\* C3: cooperative strategy: a failure raised in a keep-alive iteration
\* before a response was formed for that iteration (header read,
\* interceptor, endpoint) is answered with a 500 response as in the first
\* iteration; the coroutine ends with an error only for a broken pipe or
\* for a failure of the send.
C3_NoLeakAcrossIterations ==
  (cpc = "finished" /\ cOutcome = "error" /\ cError.kind = "other")
    => cError.at = "send"

\* C4: for the same collaborator outcomes both strategies send a response
\* of the same status, hold the same connection state for the request and
\* dispose of the connection the same way (compared whenever both engines
\* are through with the request and no send failed).
TaskThrough == TaskProcessed /\ bpc \in {"processRequest", "done"}
CoroutineThrough ==
  CoroutineTookUp /\ cpc \in {"parseHeaders", "readHeadersAsync", "finished"}

TaskSentStatus == IF bSent.cycle = cycle THEN bSent.status ELSE 0
CoroutineSentStatus == IF cSent.cycle = cycle THEN cSent.status ELSE 0

TaskDisposition ==
  IF bpc = "processRequest" THEN "read"
  ELSE IF bHandoffs > 0 THEN "handoff" ELSE "close"
CoroutineDisposition ==
  IF cpc \in {"parseHeaders", "readHeadersAsync"} THEN "read"
  ELSE IF cHandoffs > 0 THEN "handoff" ELSE "close"

C4_StrategiesEquivalent ==
  (TaskThrough /\ CoroutineThrough /\ cError.at # "send")
    => /\ TaskSentStatus = CoroutineSentStatus
       /\ (TaskSentStatus # 0 => connectionState = m_connectionState)
       /\ TaskDisposition = CoroutineDisposition

\* C5: every response the engine sends carries the Server header exactly
\* once, whatever headers the Error Handler put on it.
C5_ServerHeaderOnEverySentResponse ==
  /\ bSends > 0 => Len(bSent.server) = 1
  /\ cpc = "sendAsync" => Len(m_currentResponse.server) = 1
  /\ cSent # NullResponse => Len(cSent.server) = 1

\* C6: blocking strategy, routing miss: processRequest returns the Error
\* Handler's 404 response and sets the state to CLOSE whatever it was,
\* asks no interceptor and no endpoint; Task::run sends that response and
\* reads no further request.
NoMappingCall ==
  [status |-> CODE_404, message |-> "Current url has no mapping", headers |-> "none"]

C6_BlockingRoutingMiss ==
  (TaskProcessed /\ RoutingMiss(in))
    => /\ response.status = CODE_404
       /\ response.cycle = cycle
       /\ bLog.eh = <<NoMappingCall>>
       /\ connectionState = CONNECTION_STATE_CLOSE
       /\ bLog.icpt = <<>>
       /\ ~bLog.endpoint
       /\ bpc \in {"send", "afterLoop", "done"}
       /\ bpc \in {"afterLoop", "done"} => (bSent = response /\ bSends = cycle)
       /\ bHandoffs = 0

\* a routing miss on the second request of a kept-alive connection, sent
C6_Witness ==
  /\ TaskProcessed /\ RoutingMiss(in)
  /\ cycle = 2
  /\ bpc = "done"
  /\ bSent.status = CODE_404

\* C7: cooperative strategy, routing miss: the Coroutine forms a 404
\* response, the state it computes for the cycle is CLOSE, and it neither
\* returns to parseHeaders nor hands the connection off.
C7_CooperativeRoutingMiss ==
  (/\ CoroutineTookUp /\ RoutingMiss(in)
   /\ cpc \in {"sendAsync", "onRequestDone", "parseHeaders", "readHeadersAsync",
               "handleError", "finished"})
    => /\ m_currentResponse.status = CODE_404
       /\ m_connectionState = CONNECTION_STATE_CLOSE
       /\ cpc \notin {"parseHeaders", "readHeadersAsync"}
       /\ cHandoffs = 0

\* C8: blocking strategy, malformed headers: with a non-zero status code
\* from the header reader, processRequest returns the Error Handler's
\* response for that status and sets CLOSE, consulting neither router nor
\* interceptors nor endpoint, whatever the route table and the ioStatus.
C8_BlockingMalformedHeaders ==
  (TaskProcessed /\ MalformedHeaders(in))
    => /\ response.status = in.statusCode
       /\ response.cycle = cycle
       /\ bLog.eh = <<[status |-> in.statusCode, message |-> "Invalid request headers",
                       headers |-> "none"]>>
       /\ connectionState = CONNECTION_STATE_CLOSE
       /\ ~bLog.router
       /\ bLog.icpt = <<>>
       /\ ~bLog.endpoint
       /\ bpc \in {"send", "afterLoop", "done"}

\* malformed headers together with a non-positive ioStatus and a route
\* table that would match, on a kept-alive connection; the response is sent
C8_Witness ==
  /\ TaskProcessed /\ MalformedHeaders(in)
  /\ in.ioStatus <= 0 /\ in.route
  /\ cycle = 2
  /\ bSent.cycle = 2 /\ bSent.status = in.statusCode

\* C9: blocking strategy, stream exhaustion: with no status code and a
\* non-positive ioStatus processRequest returns no response and Task::run
\* ends at once: nothing is sent for the cycle, nothing more is read, no
\* Error Handler and no upgrade handler is invoked.
C9_BlockingStreamExhausted ==
  (TaskProcessed /\ StreamExhausted(in))
    => /\ response = NullResponse
       /\ bpc = "done"
       /\ bSent.cycle < cycle
       /\ bSends = cycle - 1
       /\ bOps = 2 * cycle - 1
       /\ bLog.eh = <<>>
       /\ bHandoffs = 0

\* the stream ends after one request that was answered with KEEP_ALIVE
C9_Witness ==
  /\ TaskProcessed /\ StreamExhausted(in)
  /\ cycle = 2
  /\ bSends = 1
  /\ bpc = "done"

\* C10: handleConnection is invoked at most once per connection, only
\* after the response of the current cycle was sent, only in state UPGRADE
\* with a handler attached; afterwards the engine does nothing more on the
\* connection; in state UPGRADE without a handler nothing is invoked and
\* the engine terminates.  Both strategies.
TaskHandoffStep ==
  /\ bHandoffs' # bHandoffs
       => /\ bHandoffs = 0 /\ bHandoffs' = 1
          /\ connectionState = CONNECTION_STATE_UPGRADE
          /\ response.handler
          /\ bSent = response /\ bSent.cycle = bcyc /\ bSends = bcyc
          /\ bpc' = "done"
  /\ bHandoffs > 0 => UNCHANGED <<bpc, bcyc, bOps, bSends, bHandoffs>>
  /\ (bpc = "afterLoop" /\ connectionState = CONNECTION_STATE_UPGRADE /\ ~response.handler)
       => (bHandoffs' = bHandoffs /\ bpc' = "done")

CoroutineHandoffStep ==
  /\ cHandoffs' # cHandoffs
       => /\ cHandoffs = 0 /\ cHandoffs' = 1
          /\ m_connectionState = CONNECTION_STATE_UPGRADE
          /\ m_currentResponse.handler
          /\ cSent = m_currentResponse /\ cSent.cycle = ccyc
          /\ cpc' = "finished"
  /\ cHandoffs > 0 => UNCHANGED <<cpc, ccyc, cOps, cSends, cHandoffs>>
  /\ (cpc = "onRequestDone" /\ m_connectionState = CONNECTION_STATE_UPGRADE
        /\ ~m_currentResponse.handler)
       => (cHandoffs' = cHandoffs /\ cpc' = "finished")

C10_UpgradeHandoff == [][TaskHandoffStep /\ CoroutineHandoffStep]_vars

\* the coroutine handed the connection off after the second request
C10_Witness ==
  /\ cHandoffs = 1
  /\ ccyc = 2
  /\ cpc = "finished"

\* C11: interceptors are asked in list order; once one answers, no later
\* interceptor and no endpoint is asked, and its response is stamped, the
\* state is computed from the current request and that response, and the
\* response is sent, like an endpoint's.  Both strategies.
InterceptorAnswers(inp) ==
  HeadersOk(inp) /\ inp.route /\ HitAt(inp.icpt) # 0 /\ inp.icpt[HitAt(inp.icpt)] = "respond"

AskedUpTo(n) == [j \in 1..n |-> j]

StampedAnswer(inp, cyc) ==
  [HandlerResponse(inp.resp, cyc) EXCEPT
     !.server = IF inp.resp.server = <<>> THEN <<SERVER_VALUE>> ELSE inp.resp.server]

C11_InterceptorShortCircuit ==
  /\ (TaskProcessed /\ InterceptorAnswers(in))
       => /\ bLog.icpt = AskedUpTo(HitAt(in.icpt))
          /\ ~bLog.endpoint
          /\ bLog.eh = <<>>
          /\ response = StampedAnswer(in, cycle)
          /\ bRequest = Request_createShared(in.request, cycle)
          /\ connectionState = considerConnectionState(bRequest, response)
          /\ bpc # "send" => (bSent = response /\ bSends = cycle)
  /\ (CoroutineTookUp /\ InterceptorAnswers(in))
       => /\ cpc \notin {"onRequestFormed", "handleAsync"}
          /\ cpc # "readHeadersAsync"
               => (/\ cLog.icpt = AskedUpTo(HitAt(in.icpt))
                   /\ ~cLog.endpoint
                   /\ cLog.eh = <<>>)
          /\ m_currentRequest = Request_createShared(in.request, cycle)
          /\ cpc # "onResponseFormed"
               => (/\ m_currentResponse = StampedAnswer(in, cycle)
                   /\ m_connectionState =
                        considerConnectionState(m_currentRequest, m_currentResponse)
                   /\ cSends = cycle)
          /\ cpc \in {"onRequestDone", "parseHeaders", "readHeadersAsync"}
               => cSent = m_currentResponse
          /\ (cpc = "finished" /\ cOutcome = "finish") => cSent = m_currentResponse

\* the first of two interceptors answers the second request of a kept-alive
\* connection and the coroutine has sent its response
C11_Witness ==
  /\ CoroutineTookUp /\ InterceptorAnswers(in)
  /\ chain = 2 /\ HitAt(in.icpt) = 1
  /\ cycle = 2
  /\ cpc = "onRequestDone"
  /\ cSent.cycle = 2

\* C12: after a response was sent the engine reads headers again exactly
\* when the connection state it holds is KEEP_ALIVE; an HTTP/1.1 request
\* without Connection header answered by the endpoint without Connection
\* header gives KEEP_ALIVE.  Both strategies.
PlainKeepAlive(inp) ==
  /\ HandlerResponds(inp)
  /\ HitAt(inp.icpt) = 0
  /\ inp.request = [proto |-> "HTTP/1.1", conn |-> "none"]
  /\ inp.resp.conn = "none" /\ ~inp.resp.upgrade

TaskLoopStep ==
  /\ (bpc = "send" /\ bpc' # bpc)
       => /\ bSends' = bSends + 1
          /\ bpc' = "processRequest" <=> connectionState = CONNECTION_STATE_KEEP_ALIVE
  /\ bcyc' # bcyc
       => (bcyc = 0 \/ (connectionState = CONNECTION_STATE_KEEP_ALIVE /\ bSends = bcyc))
  /\ (TaskProcessed /\ PlainKeepAlive(in))
       => (connectionState = CONNECTION_STATE_KEEP_ALIVE /\ bpc \in {"send", "processRequest"})

CoroutineLoopStep ==
  /\ (cpc = "onRequestDone" /\ cpc' # cpc)
       => (cpc' = "parseHeaders" <=> m_connectionState = CONNECTION_STATE_KEEP_ALIVE)
  /\ (cpc' = "parseHeaders" /\ cpc # "parseHeaders")
       => (cpc = "act" \/ (cpc = "onRequestDone" /\ cSent.cycle = ccyc
                            /\ m_connectionState = CONNECTION_STATE_KEEP_ALIVE))
  /\ cOps' # cOps => cpc \in {"parseHeaders", "onResponseFormed"}
  /\ (CoroutineTookUp /\ PlainKeepAlive(in)
        /\ cpc \in {"sendAsync", "onRequestDone", "parseHeaders", "readHeadersAsync"})
       => m_connectionState = CONNECTION_STATE_KEEP_ALIVE

C12_KeepAliveLoop == [][TaskLoopStep /\ CoroutineLoopStep]_vars

\* the coroutine waits in its second header read after a plain HTTP/1.1
\* request was answered by the endpoint
C12_Witness ==
  /\ CoroutineTookUp /\ PlainKeepAlive(in)
  /\ cycle = 1
  /\ cpc = "readHeadersAsync"
  /\ cOps = 3

\* C13: at most one send is started per parsed request, exactly one in
\* every cycle that does not end in a drop; the response sent is the one
\* formed in that cycle, so none is sent twice or in a later cycle.  Both
\* strategies.
C13_OneResponsePerRequest ==
  /\ bSends <= bcyc
  /\ bpc = "send" => (bSends = bcyc - 1 /\ response.cycle = bcyc)
  /\ bSends >= 1 => bSent.cycle = bSends
  /\ (bpc = "afterLoop" \/ (bpc = "processRequest" /\ bcyc >= 1)) => bSends = bcyc
  /\ bpc = "done" => bSends = (IF response = NullResponse THEN bcyc - 1 ELSE bcyc)
  /\ cSends <= ccyc
  /\ cpc = "onResponseFormed" => (cSends = ccyc - 1 /\ m_currentResponse.cycle = ccyc)
  /\ cpc \in {"sendAsync", "onRequestDone"}
       => (cSends = ccyc /\ m_currentResponse.cycle = ccyc)
  /\ cSent # NullResponse => (cSent.cycle <= cSends /\ cSent.cycle >= cSends - 1)
  /\ cpc \in {"onRequestDone", "parseHeaders", "readHeadersAsync"}
       => (cSends = ccyc /\ cSent.cycle = ccyc)
  /\ (cpc = "finished" /\ cOutcome = "finish") => (cSends = ccyc /\ cSent.cycle = ccyc)

\* the send of the second response failed and the coroutine ended: two
\* requests, two sends
C13_Witness ==
  /\ cpc = "finished" /\ cOutcome = "error"
  /\ cError.at = "send" /\ cError.kind = "other"
  /\ ccyc = 2 /\ cSends = 2

\* C14: stamping leaves a Server header set by the endpoint or interceptor
\* as it is and adds no second one; it adds exactly one with the default
\* value when there is none; it changes no other header and not the status.
StampedFrom(after, before) ==
  /\ before.server # <<>> => after.server = before.server
  /\ before.server = <<>> => after.server = <<SERVER_VALUE>>
  /\ [after EXCEPT !.server = before.server] = before

C14_ServerHeaderPrecedence ==
  /\ (TaskProcessed /\ HandlerResponds(in))
       => StampedFrom(response, HandlerResponse(in.resp, cycle))
  /\ (CoroutineTookUp /\ HandlerResponds(in) /\ cpc \in {"sendAsync", "onRequestDone"})
       => StampedFrom(m_currentResponse, HandlerResponse(in.resp, cycle))
  /\ (CoroutineTookUp /\ ~HandlerResponds(in) /\ cpc \in {"sendAsync", "onRequestDone"})
       => StampedFrom(m_currentResponse,
                      ErrorHandler_handleError(m_currentResponse.status,
                                               m_currentResponse.message, cycle))

\* a response with its own Server header was sent unchanged on the second
\* request of a kept-alive connection
C14_Witness ==
  /\ TaskProcessed /\ HandlerResponds(in)
  /\ in.resp.server = <<"custom">>
  /\ cycle = 2
  /\ bSent.cycle = 2 /\ bSent.server = <<"custom">>

\* the step handleError takes for a failure that is not a broken pipe
HandleErrorOther == cpc = "handleError" /\ cError.kind # "brokenPipe"

\* C15: when handleError receives a failure other than broken pipe while a
\* response is stored for the current cycle, it does not ask the Error
\* Handler and forms no second response; it logs once and ends with the
\* error, and a finished coroutine does nothing more (no send, no header
\* read, no handoff).
C15_FailureAfterCommit ==
  [][ /\ (HandleErrorOther /\ m_currentResponse # NullResponse
                           /\ m_currentResponse.cycle = ccyc)
         => /\ cLog' = cLog
            /\ m_currentResponse' = m_currentResponse
            /\ cLogged' = cLogged + 1
            /\ cpc' = "finished" /\ cOutcome' = "error"
            /\ cSends' = cSends /\ cOps' = cOps /\ cHandoffs' = cHandoffs
      /\ cpc = "finished" => UNCHANGED coVars ]_vars

\* the send of the only response of the first request failed and the
\* coroutine ended with one log entry and no Error Handler call
C15_Witness ==
  /\ cpc = "finished" /\ cOutcome = "error"
  /\ cError.at = "send" /\ cError.kind = "other"
  /\ ccyc = 1 /\ cSends = 1 /\ cLogged = 1
  /\ cLog.eh = <<>>
  /\ m_currentResponse.cycle = 1

\* C16: when handleError receives a failure other than broken pipe and no
\* response has been formed for the current cycle, it obtains a 500
\* response with the failure's message from the Error Handler and goes on
\* through onResponseFormed, which stamps the Server header, computes the
\* connection state and starts the send.
C16_FailureBeforeCommit ==
  [][ /\ (HandleErrorOther /\ (m_currentResponse = NullResponse
                                \/ m_currentResponse.cycle < ccyc))
         => /\ m_currentResponse' = ErrorHandler_handleError(CODE_500, cError.message, ccyc)
            /\ Len(cLog'.eh) = Len(cLog.eh) + 1
            /\ cpc' = "onResponseFormed"
      /\ cpc = "onResponseFormed"
         => /\ cpc' = "sendAsync"
            /\ Len(m_currentResponse'.server) = 1
            /\ m_currentResponse'.status = m_currentResponse.status
            /\ m_connectionState' = considerConnectionState(m_currentRequest, m_currentResponse')
            /\ cSends' = cSends + 1 ]_vars

\* C17: handleError given a BROKEN_PIPE failure, with or without a stored
\* response, ends with that same error: no Error Handler call, no log entry,
\* stored response and connection state unchanged, no send and no read.
C17_BrokenPipeSilent ==
  [][ (cpc = "handleError" /\ cError.kind = "brokenPipe")
        => /\ cpc' = "finished" /\ cOutcome' = "error"
           /\ cError' = cError
           /\ UNCHANGED <<m_currentResponse, m_connectionState, cLog, cLogged,
                          cSends, cSent, cOps, cHandoffs, ccyc>> ]_vars

\* a send broke the pipe while the response was stored; nothing was logged
C17_Witness ==
  /\ cpc = "finished" /\ cOutcome = "error"
  /\ cError.kind = "brokenPipe" /\ cError.at = "send"
  /\ m_currentResponse # NullResponse
  /\ cLogged = 0 /\ cLog.eh = <<>>

\* what the Error Handler is asked for a failure of each kind
ExpectedFailureCall(kind) ==
  IF kind = "http" THEN [status |-> 403, message |-> "forbidden"]
  ELSE IF kind = "std" THEN [status |-> 500, message |-> "what"]
  ELSE [status |-> 500, message |-> "Unknown error"]

\* C18: blocking strategy: a failure raised by an interceptor or by the
\* endpoint becomes the Error Handler response processRequest returns
\* (the structured error's status, 500 with the failure's message, or 500
\* with "Unknown error"); Task::run gets a response and sends it, and the
\* interceptors after the failing one and the endpoint are not run.
C18_BlockingFailureContained ==
  (TaskProcessed /\ HandlerFails(in))
    => LET e == ExpectedFailureCall(in.failKind)
           h == HitAt(in.icpt)
       IN /\ response # NullResponse
          /\ response.status = e.status /\ response.message = e.message
          /\ response.cycle = cycle
          /\ Len(bLog.eh) = 1
          /\ bLog.eh[1].status = e.status /\ bLog.eh[1].message = e.message
          /\ bLog.icpt = AskedUpTo(IF h = 0 THEN Len(in.icpt) ELSE h)
          /\ bLog.endpoint = (h = 0)
          /\ bpc # "send" => (bSent = response /\ bSends = cycle)

\* the first of two interceptors raised an unknown failure; the second was
\* not asked and the 500 response was sent
C18_Witness ==
  /\ TaskProcessed /\ HandlerFails(in)
  /\ chain = 2 /\ in.icpt[1] = "fail" /\ in.failKind = "unknown"
  /\ bLog.icpt = <<1>> /\ ~bLog.endpoint
  /\ bSent = response /\ response.message = "Unknown error"

\* C19: whenever the connection state has been computed by
\* considerConnectionState, the request handed to it is the Request built
\* from the headers parsed in the current cycle: never absent, never the
\* one of an earlier iteration. In the coroutine this covers every way of
\* reaching onResponseFormed, the routing miss and handleError included.
C19_ResolverInputIsCurrentRequest ==
  /\ (TaskProcessed /\ HandlerResponds(in))
       => bRequest = Request_createShared(in.request, cycle)
  /\ cpc = "sendAsync"
       => (m_currentRequest # NullRequest /\ m_currentRequest.cycle = ccyc)

\* C20: within one cycle the error transition does not loop: the Error
\* Handler is asked at most once per cycle and a failure arriving after it
\* was asked ends the coroutine. Under fair scheduling, a cycle whose header
\* read has a result reaches onRequestDone or a terminal error outcome, and
\* a cycle whose computed state is not KEEP_ALIVE leads to the end of the
\* coroutine.
C20_CoroutineProgress ==
  /\ [](Len(cLog.eh) <= 1)
  /\ [][(cpc = "handleError" /\ cLog.eh # <<>>) => cpc' = "finished"]_vars
  /\ (cpc = "readHeadersAsync" /\ ccyc < cycle)
       ~> (cpc = "onRequestDone" \/ (cpc = "finished" /\ cOutcome = "error"))
  /\ (cpc = "sendAsync" /\ m_connectionState # CONNECTION_STATE_KEEP_ALIVE)
       ~> cpc = "finished"

\* handleError formed a 500 response, the send of it failed, and the
\* coroutine ended instead of forming another one
C20_Witness ==
  /\ cpc = "finished" /\ cOutcome = "error"
  /\ Len(cLog.eh) = 1 /\ cLog.eh[1].status = CODE_500
  /\ cError.at = "send" /\ cError.kind = "other"
  /\ cLogged = 1

====
